---- MODULE Spec2Model ----
(***************************************************************************)
(* Model of the annotation-driven feature evaluation pipeline of the ABCD  *)
(* detector: the batch loop of main.py, the four-task annotation dispatch  *)
(* of annotations_generation.py run by execute_tasks_in_parallel, and the  *)
(* scoring / merge helpers of generic_helpers.py.                          *)
(*                                                                         *)
(* Five specifications share the variables:                                *)
(*   Spec       the batch loop and the dispatcher with its worker threads  *)
(*   SpecScore  calculate_score and print_score_details on verdict lists   *)
(*   SpecMerge  update_annotations_evaluated_features on two lists         *)
(*   SpecDetect load_blob and detect_dynamic_start on one artifact file    *)
(*   SpecKG     get_knowledge_graph_entities on a list of queries          *)
(***************************************************************************)
EXTENDS Integers, Sequences, FiniteSets, TLC

VARIABLES
  video_blobs,   \* config.video_blobs: the filenames of the batch, in order
  vi,            \* index of the video the for loop of main.py is at
  pc,            \* position of the main thread
  dirs,          \* directories that exist on disk
  files,         \* artifact files on disk: path -> what was written
                 \* (call 0: left by an earlier run of the program)
  nsub,          \* number of tasks handed to executor.submit so far
  ci,            \* index into running_tasks of the result() being awaited
  exc,           \* task whose exception result() re-raised (0: none)
  results,       \* the results list of execute_tasks_in_parallel
  tpc,           \* position of each task's worker thread
  tsaw,          \* what os.path.exists(video_path) returned to each task
  terr,          \* the exception a task ended with ("none" if none)
  wrote,         \* every write made: which call, which task, which path
  evaluated,     \* videos (by index) whose features were evaluated
  reported,      \* videos (by index) whose assessment was printed
  failedFetch,   \* videos (by index) whose annotation fetch raised
  evaluated_features,  \* the verdict list handed to the scoring helpers
  score,               \* what calculate_score returned (<<>> before the call)
  asset_result,        \* the "Asset result" line print_score_details printed
  assessment_bq,       \* first argument of the merge, updated in place
  assessment_before,   \* assessment_bq as it was before any merge
  annotations_evaluation,  \* second argument of the latest merge call
  skipped,             \* ids the latest merge reported as not found
  calls,               \* number of merge calls made
  artifact,            \* the video's generic_annotations.json on disk
  dynamic_cutoff_ms,   \* config.dynamic_cutoff_ms
  loaded,              \* outcome of a load_blob call (<<>> before the call)
  dynamic_start,       \* outcome of detect_dynamic_start (<<>> before it)
  kg_queries,          \* the queries handed to get_knowledge_graph_entities
  kg_lookups,          \* how each lookup made so far ended
  kg_entities,         \* the kg_entities dict being filled
  kg_out               \* how the call ended, what it printed and returned

dvars == <<video_blobs, vi, pc, dirs, files, nsub, ci, exc, results,
           tpc, tsaw, terr, wrote, evaluated, reported, failedFetch>>
svars == <<evaluated_features, score, asset_result>>
mvars == <<assessment_bq, assessment_before, annotations_evaluation,
           skipped, calls>>
evars == <<artifact, dynamic_cutoff_ms, loaded, dynamic_start>>
kvars == <<kg_queries, kg_lookups, kg_entities, kg_out>>
vars == <<dvars, svars, mvars, evars, kvars>>

-----------------------------------------------------------------------------
(* Bounds of the model *)

NumVideos == 2        \* length of config.video_blobs
NumNames == 2         \* distinct video filenames a batch draws from

(* Program constants *)

NumTasks == 4         \* tasks appended in generate_video_annotations

Tasks == 1..NumTasks
Names == 1..NumNames
Root == 0             \* config.local_path

\* class Annotations: the artifact names, in the order their tasks are appended
Annotations ==
  <<"generic_annotations", "face_annotations",
    "people_annotations", "speech_annotations">>

\* video_path = f"{local_path}/{video_blob['filename']}"
video_path(filename) == filename

\* face_annotations_path built from Annotations.PEOPLE_ANNOTATIONS
annotations_path_copied(t, filename) ==
  [dir |-> video_path(filename),
   name |-> IF t = 2 THEN Annotations[3] ELSE Annotations[t]]

\* the *_annotations_path f-strings: {local_path}/{filename}/{kind}.json
annotations_path(t, filename) ==
  [dir |-> video_path(filename), name |-> Annotations[t]]

Paths == {annotations_path(t, f) : t \in Tasks, f \in Names}

Finished(t) == tpc[t] \in {"done", "failed"}

\* an executor left without waiting for its work items
ShutdownMayReturn_nowait == TRUE

\* ThreadPoolExecutor.__exit__ is shutdown(wait=True): it returns only once
\* every submitted work item has finished
ShutdownMayReturn == \A t \in Tasks : tpc[t] = "unsubmitted" \/ Finished(t)

-----------------------------------------------------------------------------
(* The batch loop: execute_abcd_assessment_for_videos *)

\* the scoring and merge helpers are not running
ScoreIdle == evaluated_features = <<>> /\ score = <<>> /\ asset_result = ""
MergeIdle ==
  /\ assessment_bq = <<>>
  /\ assessment_before = <<>>
  /\ annotations_evaluation = <<>>
  /\ skipped = {}
  /\ calls = 0

\* no detector and no knowledge graph lookup is running
DetectIdle ==
  /\ artifact = <<>>
  /\ dynamic_cutoff_ms = 0
  /\ loaded = <<>>
  /\ dynamic_start = <<>>
KnowledgeGraphIdle ==
  /\ kg_queries = <<>>
  /\ kg_lookups = <<>>
  /\ kg_entities = <<>>
  /\ kg_out = <<>>

\* the batch loop has not been entered
DispatchIdle ==
  /\ video_blobs = <<>> /\ vi = 1 /\ pc = "idle" /\ dirs = {}
  /\ files = <<>> /\ nsub = 0 /\ ci = 1 /\ exc = 0 /\ results = <<>>
  /\ tpc = <<>> /\ tsaw = <<>> /\ terr = <<>> /\ wrote = {}
  /\ evaluated = {} /\ reported = {} /\ failedFetch = {}

Init ==
  /\ ScoreIdle
  /\ MergeIdle
  /\ DetectIdle
  /\ KnowledgeGraphIdle
  /\ video_blobs \in [1..NumVideos -> Names]
  /\ vi = 1
  /\ pc = "for"
  /\ dirs \in SUBSET ({Root} \cup Names)
  /\ (dirs # {} => Root \in dirs)
  /\ \E old \in SUBSET Tasks :
       files = [p \in {annotations_path(t, f) : t \in old, f \in dirs \cap Names}
                  |-> [call |-> 0, task |-> 0]]
  /\ nsub = 0
  /\ ci = 1
  /\ exc = 0
  /\ results = <<>>
  /\ tpc = [t \in Tasks |-> "unsubmitted"]
  /\ tsaw = [t \in Tasks |-> FALSE]
  /\ terr = [t \in Tasks |-> "none"]
  /\ wrote = {}
  /\ evaluated = {}
  /\ reported = {}
  /\ failedFetch = {}

\* for video_blob in config.video_blobs: ... makedirs(config.local_path) and
\* the call of generate_video_annotations, up to tasks = [] being filled
ForNextVideo ==
  /\ pc = "for"
  /\ vi <= NumVideos
  /\ dirs' = dirs \cup {Root}
  /\ pc' = "submit"
  /\ nsub' = 0
  /\ ci' = 1
  /\ exc' = 0
  /\ results' = <<>>
  /\ tpc' = [t \in Tasks |-> "unsubmitted"]
  /\ tsaw' = [t \in Tasks |-> FALSE]
  /\ terr' = [t \in Tasks |-> "none"]
  /\ UNCHANGED <<evars, kvars, svars, mvars, video_blobs, vi, files, wrote,
                 evaluated, reported, failedFetch>>

\* the for loop is exhausted
ForDone ==
  /\ pc = "for"
  /\ vi > NumVideos
  /\ pc' = "done"
  /\ UNCHANGED <<evars, kvars, svars, mvars, video_blobs, vi, dirs, files, nsub, ci, exc, results,
                 tpc, tsaw, terr, wrote, evaluated, reported, failedFetch>>

\* running_tasks = [executor.submit(task) for task in tasks]
Submit ==
  /\ pc = "submit"
  /\ nsub < NumTasks
  /\ nsub' = nsub + 1
  /\ tpc' = [tpc EXCEPT ![nsub + 1] = "annotate"]
  /\ pc' = IF nsub + 1 = NumTasks THEN "collect" ELSE "submit"
  /\ UNCHANGED <<evars, kvars, svars, mvars, video_blobs, vi, dirs, files, ci, exc, results,
                 tsaw, terr, wrote, evaluated, reported, failedFetch>>

\* the futures handed back without result() and without the with block
CollectResult_fire_and_forget ==
  /\ pc = "collect"
  /\ pc' = "returned"
  /\ UNCHANGED <<evars, kvars, svars, mvars, video_blobs, vi, dirs, files,
                 nsub, ci, exc, results, tpc, tsaw, terr, wrote,
                 evaluated, reported, failedFetch>>

\* results.append(running_task.result()) when the awaited task returned
CollectResult ==
  /\ pc = "collect"
  /\ tpc[ci] = "done"
  /\ results' = Append(results, ci)
  /\ IF ci = NumTasks
       THEN pc' = "shutdown" /\ ci' = ci
       ELSE pc' = "collect" /\ ci' = ci + 1
  /\ UNCHANGED <<evars, kvars, svars, mvars, video_blobs, vi, dirs, files, nsub, exc,
                 tpc, tsaw, terr, wrote, evaluated, reported, failedFetch>>

\* the futures awaited in completion order: whichever failure is seen first
CollectRaise_as_completed ==
  /\ pc = "collect"
  /\ \E t \in Tasks : tpc[t] = "failed" /\ exc' = t
  /\ pc' = "shutdown"
  /\ UNCHANGED <<evars, kvars, svars, mvars, video_blobs, vi, dirs, files,
                 nsub, ci, results, tpc, tsaw, terr, wrote,
                 evaluated, reported, failedFetch>>

\* running_task.result() re-raises the exception of the awaited task; the
\* with block is left with the exception pending
CollectRaise ==
  /\ pc = "collect"
  /\ tpc[ci] = "failed"
  /\ exc' = ci
  /\ pc' = "shutdown"
  /\ UNCHANGED <<evars, kvars, svars, mvars, video_blobs, vi, dirs, files, nsub, ci, results,
                 tpc, tsaw, terr, wrote, evaluated, reported, failedFetch>>

\* the with block's __exit__ returns; execute_tasks_in_parallel and then
\* generate_video_annotations return, or the pending exception propagates
ExecutorExit ==
  /\ pc = "shutdown"
  /\ ShutdownMayReturn
  /\ pc' = IF exc = 0 THEN "returned" ELSE "raised"
  /\ UNCHANGED <<evars, kvars, svars, mvars, video_blobs, vi, dirs, files, nsub, ci, exc, results,
                 tpc, tsaw, terr, wrote, evaluated, reported, failedFetch>>

\* annotations_evaluated_features = evaluate_abcd_features_using_annotations(..)
Evaluate ==
  /\ pc = "returned"
  /\ evaluated' = evaluated \cup {vi}
  /\ pc' = "print"
  /\ UNCHANGED <<evars, kvars, svars, mvars, video_blobs, vi, dirs, files, nsub, ci, exc, results,
                 tpc, tsaw, terr, wrote, reported, failedFetch>>

\* print_abcd_assessment(...), the sheet update, and on to the next video
Report ==
  /\ pc = "print"
  /\ reported' = reported \cup {vi}
  /\ vi' = vi + 1
  /\ pc' = "for"
  /\ UNCHANGED <<evars, kvars, svars, mvars, video_blobs, dirs, files, nsub, ci, exc, results,
                 tpc, tsaw, terr, wrote, evaluated, failedFetch>>

\* no try/except around generate_video_annotations: the exception leaves the
\* for loop and execute_abcd_assessment_for_videos
Propagate ==
  /\ pc = "raised"
  /\ failedFetch' = failedFetch \cup {vi}
  /\ pc' = "aborted"
  /\ UNCHANGED <<evars, kvars, svars, mvars, video_blobs, vi, dirs, files, nsub, ci, exc, results,
                 tpc, tsaw, terr, wrote, evaluated, reported>>

-----------------------------------------------------------------------------
(* A worker thread running standard_/custom_annotations_detection *)

\* operation = annotate_video(...); response = operation.result(timeout=800)
OperationResult(t) ==
  /\ tpc[t] = "annotate"
  /\ \E ok \in BOOLEAN :
       IF ok
         THEN tpc' = [tpc EXCEPT ![t] = "exists"] /\ terr' = terr
         ELSE /\ tpc' = [tpc EXCEPT ![t] = "failed"]
              /\ terr' = [terr EXCEPT ![t] = "TimeoutError"]
  /\ UNCHANGED <<evars, kvars, svars, mvars, video_blobs, vi, pc, dirs, files, nsub, ci, exc, results,
                 tsaw, wrote, evaluated, reported, failedFetch>>

\* os.makedirs called whatever os.path.exists answered
PathExists_unguarded(t) ==
  /\ tpc[t] = "exists"
  /\ tsaw' = [tsaw EXCEPT ![t] = video_path(video_blobs[vi]) \in dirs]
  /\ tpc' = [tpc EXCEPT ![t] = "makedirs"]
  /\ UNCHANGED <<evars, kvars, svars, mvars, video_blobs, vi, pc, dirs, files,
                 nsub, ci, exc, results, terr, wrote,
                 evaluated, reported, failedFetch>>

\* if not os.path.exists(video_path):
PathExists(t) ==
  /\ tpc[t] = "exists"
  /\ tsaw' = [tsaw EXCEPT ![t] = video_path(video_blobs[vi]) \in dirs]
  /\ tpc' = [tpc EXCEPT ![t] =
               IF video_path(video_blobs[vi]) \in dirs THEN "open"
                                                       ELSE "makedirs"]
  /\ UNCHANGED <<evars, kvars, svars, mvars, video_blobs, vi, pc, dirs, files, nsub, ci, exc, results,
                 terr, wrote, evaluated, reported, failedFetch>>

\* os.makedirs(video_path): FileExistsError when the leaf is already there
Makedirs(t) ==
  /\ tpc[t] = "makedirs"
  /\ IF video_path(video_blobs[vi]) \in dirs
       THEN /\ tpc' = [tpc EXCEPT ![t] = "failed"]
            /\ terr' = [terr EXCEPT ![t] = "FileExistsError"]
            /\ dirs' = dirs
       ELSE /\ tpc' = [tpc EXCEPT ![t] = "open"]
            /\ terr' = terr
            /\ dirs' = dirs \cup {video_path(video_blobs[vi])}
  /\ UNCHANGED <<evars, kvars, svars, mvars, video_blobs, vi, pc, files, nsub, ci, exc, results,
                 tsaw, wrote, evaluated, reported, failedFetch>>

\* with open(local_path, 'w') as f: json.dump(dict_data, f, indent=2)
WriteArtifact(t) ==
  /\ tpc[t] = "open"
  /\ LET p == annotations_path(t, video_blobs[vi]) IN
       /\ files' = [q \in DOMAIN files \cup {p} |->
                      IF q = p THEN [call |-> vi, task |-> t] ELSE files[q]]
       /\ wrote' = wrote \cup {[call |-> vi, task |-> t, path |-> p]}
  /\ tpc' = [tpc EXCEPT ![t] = "done"]
  /\ UNCHANGED <<evars, kvars, svars, mvars, video_blobs, vi, pc, dirs, nsub, ci, exc, results,
                 tsaw, terr, evaluated, reported, failedFetch>>

Worker == \E t \in Tasks :
  OperationResult(t) \/ PathExists(t) \/ Makedirs(t) \/ WriteArtifact(t)

Next ==
  \/ ForNextVideo
  \/ ForDone
  \/ Submit
  \/ CollectResult
  \/ CollectRaise
  \/ ExecutorExit
  \/ Evaluate
  \/ Report
  \/ Propagate
  \/ Worker

Spec == Init /\ [][Next]_vars

-----------------------------------------------------------------------------
(* Properties of the dispatcher and the batch loop *)

InCall == pc \in {"submit", "collect", "shutdown"}
Running(t) == tpc[t] \in {"annotate", "exists", "makedirs", "open"}
TimedOut == {t \in Tasks : terr[t] = "TimeoutError"}

\* task t of the current call wrote its artifact
WroteArtifact(t) ==
  /\ tpc[t] = "done"
  /\ annotations_path(t, video_blobs[vi]) \in DOMAIN files
  /\ files[annotations_path(t, video_blobs[vi])] = [call |-> vi, task |-> t]

\* C1: when one annotation task fails on its operation.result, every other
\* task has run to completion and written its artifact by the time
\* generate_video_annotations is left
C1_SiblingsComplete ==
  (pc \in {"returned", "raised"} /\ Cardinality(TimedOut) = 1)
    => \A t \in Tasks \ TimedOut : WroteArtifact(t)

\* C2: when exactly one of the four requests times out,
\* generate_video_annotations returns without raising and the video's
\* processing goes on
C2_TimeoutDoesNotAbort ==
  (~InCall /\ pc # "for" /\ Cardinality(TimedOut) = 1)
    => pc \notin {"raised", "aborted"}

\* C3: a failed annotation fetch of one video does not abort the batch:
\* once the loop has ended every later video was evaluated and reported
C3_BatchContinues ==
  pc \in {"done", "aborted"} =>
    \A v \in 1..NumVideos :
      (\E u \in failedFetch : u < v) => v \in evaluated /\ v \in reported

C5_MakedirsIdempotent ==
  pc # "idle" =>
    \A t \in Tasks :
      /\ terr[t] # "FileExistsError"
      /\ tpc[t] \in {"open", "done"} => video_path(video_blobs[vi]) \in dirs

\* C6: within one call the four tasks write four pairwise distinct paths
\* {local_path}/{filename}/{kind}.json, each task its own kind, and no file
\* is written by two tasks of the same call
C6_DistinctPaths ==
  /\ \A f \in Names : \A t, u \in Tasks :
       annotations_path(t, f) = annotations_path(u, f) => t = u
  /\ \A w \in wrote :
       w.path = [dir |-> video_blobs[w.call], name |-> Annotations[w.task]]
  /\ \A w, x \in wrote :
       (w.call = x.call /\ w.path = x.path) => w.task = x.task

\* a call returned with its four artifacts written
C6_Witness ==
  /\ pc = "returned"
  /\ Cardinality({w.path : w \in {x \in wrote : x.call = vi}}) = NumTasks

\* task t has made its os.path.exists check in the current call
Checked(t) ==
  tpc[t] \in {"makedirs", "open", "done"} \/ terr[t] = "FileExistsError"

\* the video directory was there when the current call began: the directory
\* is only ever created by a task that found it missing
DirectoryWasThere ==
  /\ \E t \in Tasks : Checked(t)
  /\ \A t \in Tasks : Checked(t) => tsaw[t]

C17_OneVideoAtATime ==
  /\ \A v \in 1..NumVideos :
       /\ v < vi => v \in evaluated /\ v \in reported
       /\ v > vi => v \notin evaluated /\ v \notin reported
  /\ vi \in evaluated => \A t \in Tasks : tpc[t] = "done"
  /\ (\E t \in Tasks : Running(t)) =>
       InCall /\ vi \notin evaluated /\ vi \notin reported
  /\ pc = "for" => \A t \in Tasks : ~Running(t)

\* the second video's tasks are in flight, the first video being reported
C17_Witness ==
  /\ vi = 2
  /\ 1 \in reported
  /\ \E t \in Tasks : Running(t)

FailedTasks == {t \in Tasks : tpc[t] = "failed"}

\* C18: what execute_tasks_in_parallel reports does not depend on the order
\* of completion: the results are in submission order, and the exception
\* raised is that of the failed task earliest in submission order
C18_SubmissionOrder ==
  /\ \A i \in 1..Len(results) : results[i] = i
  /\ pc = "returned" => Len(results) = NumTasks
  /\ pc = "raised" =>
       /\ exc \in FailedTasks
       /\ \A t \in FailedTasks : exc <= t

\* several tasks failed and the exception of the earliest was raised
C18_Witness ==
  /\ pc = "raised"
  /\ Cardinality(FailedTasks) >= 2
  /\ exc = 2

-----------------------------------------------------------------------------
(* Python dicts are functions from the keys present to their values *)

None == 0              \* no feature has id 0

\* d.get(k)
Get(d, k) == IF k \in DOMAIN d THEN d[k] ELSE None

\* d[k] = v
DictSet(d, k, v) == [x \in DOMAIN d \cup {k} |-> IF x = k THEN v ELSE d[x]]

\* the truth value Python gives d.get(k) when the stored values are booleans
Truthy(d, k) == k \in DOMAIN d /\ d[k] = TRUE

-----------------------------------------------------------------------------
(* Scoring: calculate_score and print_score_details *)

MaxVerdicts == 3      \* verdict lists of every shape up to this length
MaxRun == 20          \* longer lists: p detected verdicts, then undetected

\* a verdict {"id": .., "detected": ..}; feature ids are numbered: f1 is 1
Verdict(i, b) == [id |-> i, detected |-> b]

\* verdict lists as evaluate_abcd_features_using_annotations hands them over
VerdictLists ==
  {[i \in 1..n |-> Verdict(i, d[i])] :
     n \in 0..MaxVerdicts, d \in [1..MaxVerdicts -> BOOLEAN]}
  \cup {[i \in 1..n |-> Verdict(i, i <= p)] :
          n \in 0..MaxRun, p \in 0..MaxRun}

RECURSIVE passed_features_count(_)
\* the for loop of calculate_score
passed_features_count(features) ==
  IF features = <<>> THEN 0
  ELSE passed_features_count(SubSeq(features, 1, Len(features) - 1))
       + (IF Truthy(features[Len(features)], "detected") THEN 1 ELSE 0)

\* the guard dropped: the division is made whatever total_features is
calculate_score_unguarded(features) ==
  [num |-> passed_features_count(features) * 100, den |-> Len(features)]

\* the score is the quotient num / den of true division, kept exact; den = 0
\* stands for the ZeroDivisionError of a division by zero
calculate_score(features) ==
  IF Len(features) > 0
    THEN [num |-> passed_features_count(features) * 100,
          den |-> Len(features)]
    ELSE [num |-> 0, den |-> 1]

\* score >= n and score < n for a whole number n
ScoreGE(s, n) == s.num >= n * s.den
ScoreLT(s, n) == s.num < n * s.den

\* the first comparison made strict
AssetResult_strict(s) ==
  IF s.num > 80 * s.den THEN "Excellent"
  ELSE IF ScoreGE(s, 65) /\ ScoreLT(s, 80) THEN "Might Improve"
  ELSE "Needs Review"

\* the if / elif / else of print_score_details
AssetResult(s) ==
  IF ScoreGE(s, 80) THEN "Excellent"
  ELSE IF ScoreGE(s, 65) /\ ScoreLT(s, 80) THEN "Might Improve"
  ELSE "Needs Review"

InitScore ==
  /\ evaluated_features \in VerdictLists
  /\ score = <<>>
  /\ asset_result = ""
  /\ MergeIdle
  /\ DetectIdle
  /\ KnowledgeGraphIdle
  /\ video_blobs = <<>> /\ vi = 1 /\ pc = "idle" /\ dirs = {}
  /\ files = <<>> /\ nsub = 0 /\ ci = 1 /\ exc = 0 /\ results = <<>>
  /\ tpc = <<>> /\ tsaw = <<>> /\ terr = <<>> /\ wrote = {}
  /\ evaluated = {} /\ reported = {} /\ failedFetch = {}

\* score = calculate_score(evaluated_features)
CalculateScore ==
  /\ score = <<>>
  /\ score' = calculate_score(evaluated_features)
  /\ UNCHANGED <<evars, kvars, dvars, mvars, evaluated_features, asset_result>>

\* print_score_details(abcd_eval): the "Asset result" line
PrintScoreDetails ==
  /\ asset_result = ""
  /\ asset_result' = AssetResult(calculate_score(evaluated_features))
  /\ UNCHANGED <<evars, kvars, dvars, mvars, evaluated_features, score>>

NextScore ==
  \/ CalculateScore
  \/ PrintScoreDetails

SpecScore == InitScore /\ [][NextScore]_vars

\* number of verdicts of a list with detected = true
DetectedCount(features) ==
  Cardinality({i \in 1..Len(features) : features[i].detected})

\* C7: calculate_score returns 100 * detected / total, and 0 without
\* dividing for the empty list; the score lies in [0, 100] and is 0 exactly
\* when the list is empty or no verdict is detected
C7_ScoreFormula ==
  score # <<>> =>
    LET n == Len(evaluated_features)
        k == DetectedCount(evaluated_features)
    IN /\ score.den > 0
       /\ (n = 0 => score.num = 0)
       /\ (n > 0 => score.num * n = 100 * k * score.den)
       /\ 0 <= score.num
       /\ score.num <= 100 * score.den
       /\ (score.num = 0 <=> (n = 0 \/ k = 0))

\* a list of three verdicts, two of them detected, has been scored
C7_Witness ==
  /\ score # <<>>
  /\ Len(evaluated_features) = 3
  /\ DetectedCount(evaluated_features) = 2
  /\ score.num * 3 = 200 * score.den

\* C8: the printed bucket is Excellent for score >= 80, Might Improve for
\* 65 <= score < 80 and Needs Review for score < 65, with 80.0 Excellent,
\* 79.9999 and 65.0 Might Improve and 64.9999 Needs Review
C8_Buckets ==
  /\ asset_result # "" =>
       LET s == calculate_score(evaluated_features) IN
         /\ (s.num >= 80 * s.den => asset_result = "Excellent")
         /\ (s.num >= 65 * s.den /\ s.num < 80 * s.den
               => asset_result = "Might Improve")
         /\ (s.num < 65 * s.den => asset_result = "Needs Review")
  /\ AssetResult([num |-> 800000, den |-> 10000]) = "Excellent"
  /\ AssetResult([num |-> 799999, den |-> 10000]) = "Might Improve"
  /\ AssetResult([num |-> 650000, den |-> 10000]) = "Might Improve"
  /\ AssetResult([num |-> 649999, den |-> 10000]) = "Needs Review"

\* a list scoring exactly 65 (13 of 20 detected) was printed as Might Improve
C8_Witness ==
  /\ asset_result = "Might Improve"
  /\ Len(evaluated_features) = 20
  /\ DetectedCount(evaluated_features) = 13

-----------------------------------------------------------------------------
(* Cross-source merge: update_annotations_evaluated_features *)

MaxFeatures == 2      \* longest feature list of either source
NumFeatureIds == 3    \* feature ids f1, f2, ... the lists draw from
MaxCalls == 2         \* merge calls made on one assessment

\* lists of up to MaxFeatures entries with pairwise distinct feature ids
IdLists ==
  UNION {{l \in [1..n -> 1..NumFeatureIds] :
            \A i, j \in 1..n : l[i] = l[j] => i = j} : n \in 0..MaxFeatures}

\* the rows of the first source, keyed by "feature_id"
AssessmentLists ==
  {[i \in 1..Len(l) |-> [feature_id |-> l[i], detected |-> d[i]]] :
     l \in IdLists, d \in [1..MaxFeatures -> BOOLEAN]}

\* what the second source hands over: nothing, or its verdict list
SecondSources ==
  {<<>>} \cup
  {[evaluated_features |-> [i \in 1..Len(l) |-> Verdict(l[i], d[i])]] :
     l \in IdLists, d \in [1..MaxFeatures -> BOOLEAN]}

\* the lookup made on the key "id" instead of "feature_id"
get_feature_by_id_wrong_key(features, feature_id) ==
  LET found == {i \in 1..Len(features) :
                  Get(features[i], "id") = feature_id}
  IN IF found # {} THEN CHOOSE i \in found : \A j \in found : i <= j
     ELSE 0

\* get_feature_by_id returns the first feature with that feature_id, the very
\* dict of the list: its index, 0 for None
get_feature_by_id(features, feature_id) ==
  LET found == {i \in 1..Len(features) :
                  Get(features[i], "feature_id") = feature_id}
  IN IF found # {} THEN CHOOSE i \in found : \A j \in found : i <= j
     ELSE 0

\* the second source's boolean written over the feature's own verdict
attach_annotations_overwriting(feature, verdict) ==
  DictSet(DictSet(feature, "using_annotations", TRUE),
          "detected", Get(verdict, "detected"))

\* feature_found["using_annotations"] = True
\* feature_found["annotations_evaluation"] = ...get("detected")
attach_annotations(feature, verdict) ==
  DictSet(DictSet(feature, "using_annotations", TRUE),
          "annotations_evaluation", Get(verdict, "detected"))

RECURSIVE merge_loop(_, _)
\* the for loop over annotations_evaluation.get("evaluated_features"); acc
\* holds the list being updated and the ids printed as not found
merge_loop(acc, verdicts) ==
  IF verdicts = <<>> THEN acc
  ELSE LET v == Head(verdicts)
           i == get_feature_by_id(acc.bq, Get(v, "id"))
       IN IF i # 0 /\ DOMAIN acc.bq[i] # {}
            THEN merge_loop(
                   [acc EXCEPT !.bq[i] = attach_annotations(@, v)],
                   Tail(verdicts))
            ELSE merge_loop(
                   [acc EXCEPT !.skipped = @ \cup {Get(v, "id")}],
                   Tail(verdicts))

\* update_annotations_evaluated_features(assessment_bq, annotations_evaluation)
update_annotations_evaluated_features(bq, ae) ==
  IF DOMAIN ae # {}
    THEN merge_loop([bq |-> bq, skipped |-> {}], ae.evaluated_features)
    ELSE [bq |-> bq, skipped |-> {}]

InitMerge ==
  /\ assessment_bq \in AssessmentLists
  /\ assessment_before = assessment_bq
  /\ annotations_evaluation = <<>>
  /\ skipped = {}
  /\ calls = 0
  /\ ScoreIdle
  /\ DetectIdle
  /\ KnowledgeGraphIdle
  /\ video_blobs = <<>> /\ vi = 1 /\ pc = "idle" /\ dirs = {}
  /\ files = <<>> /\ nsub = 0 /\ ci = 1 /\ exc = 0 /\ results = <<>>
  /\ tpc = <<>> /\ tsaw = <<>> /\ terr = <<>> /\ wrote = {}
  /\ evaluated = {} /\ reported = {} /\ failedFetch = {}

\* one call of update_annotations_evaluated_features
Merge ==
  /\ calls < MaxCalls
  /\ \E ae \in SecondSources :
       LET r == update_annotations_evaluated_features(assessment_bq, ae) IN
         /\ assessment_bq' = r.bq
         /\ skipped' = r.skipped
         /\ annotations_evaluation' = ae
  /\ calls' = calls + 1
  /\ UNCHANGED <<evars, kvars, dvars, svars, assessment_before>>

NextMerge ==
  \/ Merge

SpecMerge == InitMerge /\ [][NextMerge]_vars

SecondSourceFields == {"using_annotations", "annotations_evaluation"}

\* C9: after a merge every second-source verdict whose id matches a feature
\* of the first list has its boolean attached to that feature, which is
\* flagged as evaluated by the second source; a verdict with no matching id
\* is dropped; the list keeps its length and ids; and first list [f1: true]
\* with second list [f1: false, f2: true] gives the one feature f1 with its
\* own verdict true and the attached verdict false
C9_MergeById ==
  calls > 0 =>
    /\ Len(assessment_bq) = Len(assessment_before)
    /\ \A i \in 1..Len(assessment_bq) :
         assessment_bq[i].feature_id = assessment_before[i].feature_id
    /\ DOMAIN annotations_evaluation # {} =>
         \A k \in 1..Len(annotations_evaluation.evaluated_features) :
           LET v == annotations_evaluation.evaluated_features[k]
               m == {i \in 1..Len(assessment_bq) :
                       assessment_bq[i].feature_id = v.id}
           IN /\ \A i \in m :
                   /\ SecondSourceFields \subseteq DOMAIN assessment_bq[i]
                   /\ assessment_bq[i].using_annotations = TRUE
                   /\ assessment_bq[i].annotations_evaluation = v.detected
              /\ (m = {} <=> v.id \in skipped)
    /\ ( /\ calls = 1
         /\ assessment_before = <<[feature_id |-> 1, detected |-> TRUE]>>
         /\ annotations_evaluation =
              [evaluated_features |-> <<Verdict(1, FALSE), Verdict(2, TRUE)>>] )
       => /\ Len(assessment_bq) = 1
          /\ assessment_bq[1].feature_id = 1
          /\ assessment_bq[1].detected = TRUE
          /\ SecondSourceFields \subseteq DOMAIN assessment_bq[1]
          /\ assessment_bq[1].annotations_evaluation = FALSE
          /\ assessment_bq[1].using_annotations = TRUE
          /\ skipped = {2}

\* the merge of [f1: true] with [f1: false, f2: true] has been made
C9_Witness ==
  /\ calls = 1
  /\ assessment_before = <<[feature_id |-> 1, detected |-> TRUE]>>
  /\ annotations_evaluation =
       [evaluated_features |-> <<Verdict(1, FALSE), Verdict(2, TRUE)>>]
  /\ Len(assessment_bq) = 1
  /\ "annotations_evaluation" \in DOMAIN assessment_bq[1]

\* C10: after any sequence of merges every field a feature of the first list
\* had before is unchanged, only the two second-source fields are added or
\* updated, and calculate_score over the first list is what it was before
C10_MergeAdditive ==
  /\ Len(assessment_bq) = Len(assessment_before)
  /\ \A i \in 1..Len(assessment_bq) :
       /\ DOMAIN assessment_bq[i] \subseteq
            DOMAIN assessment_before[i] \cup SecondSourceFields
       /\ \A k \in DOMAIN assessment_before[i] \ SecondSourceFields :
            /\ k \in DOMAIN assessment_bq[i]
            /\ assessment_bq[i][k] = assessment_before[i][k]
  /\ calculate_score(assessment_bq) = calculate_score(assessment_before)

\* two merges were made and a feature carries a second-source verdict that
\* differs from its own
C10_Witness ==
  /\ calls = 2
  /\ \E i \in 1..Len(assessment_bq) :
       /\ "annotations_evaluation" \in DOMAIN assessment_bq[i]
       /\ assessment_bq[i].annotations_evaluation # assessment_bq[i].detected

-----------------------------------------------------------------------------
(* Annotation store and the dynamic start detector *)

MaxShots == 2         \* longest shot_annotations list of an artifact

\* end_time_offset values in milliseconds, around the default cutoff
OffsetsMs == {0, 2500, 3000, 3500}

\* values of config.dynamic_cutoff_ms; 3000 is the default
Cutoffs == {1, 3000, 5000}

\* a Python string holding a count of seconds: its number (kept in
\* milliseconds), whether the text ends in "s", and whether it is ""
EmptyString == [ms |-> 0, suffix |-> FALSE, empty |-> TRUE]
OffsetStrings ==
  {[ms |-> n, suffix |-> x, empty |-> FALSE] : n \in OffsetsMs, x \in BOOLEAN}

\* seconds.replace("s", ""): a new string without the suffix
str_replace_s(str) == [str EXCEPT !.suffix = FALSE]

\* float(seconds): ValueError unless the whole text is a number
float(str) ==
  IF str.empty \/ str.suffix
    THEN [raised |-> "ValueError", value |-> 0]
    ELSE [raised |-> "", value |-> str.ms]

\* one shot record, with or without its end_time_offset
ShotRecords ==
  {[start_time_offset |-> EmptyString]}
  \cup {[start_time_offset |-> EmptyString, end_time_offset |-> e] :
          e \in OffsetStrings \cup {EmptyString}}

\* an element of annotation_results, with or without shot_annotations
AnnotationResults ==
  {[text_annotations |-> <<>>]}
  \cup {[text_annotations |-> <<>>, shot_annotations |-> l] :
          l \in UNION {[1..n -> ShotRecords] : n \in 0..MaxShots}}

\* what json.load can find in the file
JsonData ==
  {[input_uri |-> 0]}
  \cup {[annotation_results |-> <<>>]}
  \cup {[annotation_results |-> <<r>>] : r \in AnnotationResults}
  \cup {[annotation_results |-> <<r, [text_annotations |-> <<>>]>>] :
          r \in AnnotationResults}

\* the artifact file: absent, not JSON, or JSON
Artifacts ==
  {[exists |-> FALSE, valid_json |-> FALSE, data |-> <<>>],
   [exists |-> TRUE, valid_json |-> FALSE, data |-> <<>>]}
  \cup {[exists |-> TRUE, valid_json |-> TRUE, data |-> j] : j \in JsonData}

\* load_blob: open, json.load, .get("annotation_results")[0]
load_blob(a) ==
  IF ~a.exists THEN [raised |-> "FileNotFoundError", value |-> <<>>]
  ELSE IF ~a.valid_json THEN [raised |-> "JSONDecodeError", value |-> <<>>]
  ELSE IF "annotation_results" \notin DOMAIN a.data
    THEN [raised |-> "TypeError", value |-> <<>>]
  ELSE IF Len(a.data.annotation_results) = 0
    THEN [raised |-> "IndexError", value |-> <<>>]
  ELSE [raised |-> "", value |-> a.data.annotation_results[1]]

\* the offset read with ["end_time_offset"] instead of .get
total_ms_first_shot_required(shot) ==
  IF "end_time_offset" \notin DOMAIN shot
    THEN [raised |-> "KeyError", value |-> 0]
  ELSE IF shot.end_time_offset.empty THEN [raised |-> "", value |-> 0]
  ELSE float(shot.end_time_offset)

\* seconds = ...get("end_time_offset"); total_ms_first_shot = 0;
\* if seconds: seconds.replace("s", "") (its result is dropped);
\* total_ms_first_shot = float(seconds) * 1e9 / 1e6
total_ms_first_shot(shot) ==
  IF "end_time_offset" \in DOMAIN shot /\ ~shot.end_time_offset.empty
    THEN LET seconds == shot.end_time_offset
             dropped == str_replace_s(seconds)
         IN float(seconds)
    ELSE [raised |-> "", value |-> 0]

\* detect_dynamic_start(config, feature_name, video_uri)
detect_dynamic_start(cutoff, a) ==
  LET blob == load_blob(a) IN
    IF blob.raised # "" THEN [raised |-> blob.raised, value |-> FALSE]
    ELSE IF "shot_annotations" \in DOMAIN blob.value
      THEN IF Len(blob.value.shot_annotations) = 0
             THEN [raised |-> "IndexError", value |-> FALSE]
             ELSE LET total == total_ms_first_shot(
                                 blob.value.shot_annotations[1])
                  IN IF total.raised # ""
                       THEN [raised |-> total.raised, value |-> FALSE]
                       ELSE [raised |-> "", value |-> total.value < cutoff]
      ELSE [raised |-> "", value |-> FALSE]

InitDetect ==
  /\ artifact \in Artifacts
  /\ dynamic_cutoff_ms \in Cutoffs
  /\ loaded = <<>>
  /\ dynamic_start = <<>>
  /\ ScoreIdle
  /\ MergeIdle
  /\ KnowledgeGraphIdle
  /\ DispatchIdle

\* shot_annotation_results = load_blob(annotation_uri)
LoadBlob ==
  /\ loaded = <<>>
  /\ loaded' = load_blob(artifact)
  /\ UNCHANGED <<dvars, svars, mvars, kvars,
                 artifact, dynamic_cutoff_ms, dynamic_start>>

\* one call of detect_dynamic_start on the video
DetectDynamicStart ==
  /\ dynamic_start = <<>>
  /\ dynamic_start' = detect_dynamic_start(dynamic_cutoff_ms, artifact)
  /\ UNCHANGED <<dvars, svars, mvars, kvars,
                 artifact, dynamic_cutoff_ms, loaded>>

NextDetect ==
  \/ LoadBlob
  \/ DetectDynamicStart

SpecDetect == InitDetect /\ [][NextDetect]_vars

\* the file is missing, not JSON, lacks the key, or has no result
Malformed(a) ==
  \/ ~a.exists
  \/ ~a.valid_json
  \/ "annotation_results" \notin DOMAIN a.data
  \/ Len(a.data.annotation_results) = 0

\* the artifact is well formed and its result has a shot_annotations list
HasShotList(a) ==
  /\ ~Malformed(a)
  /\ "shot_annotations" \in DOMAIN a.data.annotation_results[1]

FirstShot(a) == a.data.annotation_results[1].shot_annotations[1]

\* C11: load_blob returns element [0] of the results list, and fails with
\* the one error kind MalformedArtifact on every malformed file
C11_LoadBlob ==
  loaded # <<>> =>
    IF Malformed(artifact)
      THEN loaded.raised = "MalformedArtifact"
      ELSE /\ loaded.raised = ""
           /\ loaded.value = artifact.data.annotation_results[1]

\* C12: for a first shot whose end_time_offset is a seconds-suffixed string
\* the detector returns detected = true exactly when the offset in
\* milliseconds is strictly below config.dynamic_cutoff_ms
C12_SuffixedOffset ==
  ( /\ dynamic_start # <<>>
    /\ HasShotList(artifact)
    /\ Len(artifact.data.annotation_results[1].shot_annotations) > 0
    /\ "end_time_offset" \in DOMAIN FirstShot(artifact)
    /\ FirstShot(artifact).end_time_offset.suffix )
  => /\ dynamic_start.raised = ""
     /\ dynamic_start.value
          = (FirstShot(artifact).end_time_offset.ms < dynamic_cutoff_ms)

\* C13: on an artifact whose shot_annotations list is empty the detector
\* does not raise and returns detected = false
C13_EmptyShotList ==
  ( /\ dynamic_start # <<>>
    /\ HasShotList(artifact)
    /\ Len(artifact.data.annotation_results[1].shot_annotations) = 0 )
  => /\ dynamic_start.raised = ""
     /\ dynamic_start.value = FALSE

\* C14: on a video whose generic_annotations.json was never written the
\* detector does not raise and does not return detected = true
C14_AbsentArtifact ==
  (dynamic_start # <<>> /\ ~artifact.exists)
    => /\ dynamic_start.raised = ""
       /\ dynamic_start.value = FALSE

\* C19: a first shot without end_time_offset, or with an empty one, counts as
\* 0 ms and gives detected = true for every positive cutoff; a result
\* without shot_annotations gives detected = false
C19_MissingOffset ==
  (dynamic_start # <<>> /\ ~Malformed(artifact)) =>
    /\ ( /\ HasShotList(artifact)
         /\ Len(artifact.data.annotation_results[1].shot_annotations) > 0
         /\ \/ "end_time_offset" \notin DOMAIN FirstShot(artifact)
            \/ FirstShot(artifact).end_time_offset.empty
         /\ dynamic_cutoff_ms > 0 )
       => dynamic_start.raised = "" /\ dynamic_start.value = TRUE
    /\ ~HasShotList(artifact)
       => dynamic_start.raised = "" /\ dynamic_start.value = FALSE

\* the detector ran on a first shot that has no end_time_offset
C19_Witness ==
  /\ dynamic_start # <<>>
  /\ HasShotList(artifact)
  /\ Len(artifact.data.annotation_results[1].shot_annotations) > 0
  /\ "end_time_offset" \notin DOMAIN FirstShot(artifact)
  /\ dynamic_cutoff_ms = 1
  /\ dynamic_start.value = TRUE

-----------------------------------------------------------------------------
(* Knowledge graph lookup: get_knowledge_graph_entities *)

MaxQueries == 2       \* longest list of queries
NumWords == 2         \* distinct words a query or an entity name can be
NumEntityIds == 2     \* distinct entity ids the service can answer with

\* a string: its word and whether it is written in upper case
Strings == [word : 1..NumWords, upper : BOOLEAN]

\* str.lower()
lower(str) == [str EXCEPT !.upper = FALSE]

\* an element of response["itemListElement"]: its result's name and "@id"
Elements == [name : Strings, id : 1..NumEntityIds]

\* what a lookup can come back with: a failure (urlopen, json.loads or a
\* missing key raising), or the list of elements found
LookupFailure == [failed |-> TRUE, items |-> <<>>]
Responses ==
  {LookupFailure}
  \cup {[failed |-> FALSE, items |-> <<>>]}
  \cup {[failed |-> FALSE, items |-> <<e>>] : e \in Elements}

RECURSIVE add_exact_entities(_, _, _)
\* for element in response["itemListElement"]: keep the exact matches
add_exact_entities(entities, query, items) ==
  IF items = <<>> THEN entities
  ELSE LET element == Head(items) IN
    add_exact_entities(
      IF lower(query) = lower(element.name)
        THEN DictSet(entities, element.id, element.name)
        ELSE entities,
      query, Tail(items))

\* an except clause that prints and hands back what was collected
except_handler_swallowing(entities) ==
  [state |-> "returned", logged |-> TRUE, value |-> entities]

\* except Exception as ex: print(...); raise
except_handler(entities) ==
  [state |-> "raised", logged |-> TRUE, value |-> <<>>]

InitKG ==
  /\ kg_queries \in UNION {[1..n -> Strings] : n \in 0..MaxQueries}
  /\ kg_lookups = <<>>
  /\ kg_entities = <<>>
  /\ kg_out = [state |-> "running", logged |-> FALSE, value |-> <<>>]
  /\ ScoreIdle
  /\ MergeIdle
  /\ DetectIdle
  /\ DispatchIdle

\* one turn of for query in queries: the lookup and the filter
KGLookup ==
  /\ kg_out.state = "running"
  /\ Len(kg_lookups) < Len(kg_queries)
  /\ \E response \in Responses :
       IF response.failed
         THEN /\ kg_lookups' = Append(kg_lookups, "error")
              /\ kg_out' = except_handler(kg_entities)
              /\ kg_entities' = kg_entities
         ELSE /\ kg_lookups' = Append(kg_lookups, "ok")
              /\ kg_entities' =
                   add_exact_entities(kg_entities,
                                      kg_queries[Len(kg_lookups) + 1],
                                      response.items)
              /\ kg_out' = kg_out
  /\ UNCHANGED <<dvars, svars, mvars, evars, kg_queries>>

\* return kg_entities
KGReturn ==
  /\ kg_out.state = "running"
  /\ Len(kg_lookups) = Len(kg_queries)
  /\ kg_out' = [state |-> "returned", logged |-> FALSE, value |-> kg_entities]
  /\ UNCHANGED <<dvars, svars, mvars, evars,
                 kg_queries, kg_lookups, kg_entities>>

NextKG ==
  \/ KGLookup
  \/ KGReturn

SpecKG == InitKG /\ [][NextKG]_vars

FailedLookups == {i \in 1..Len(kg_lookups) : kg_lookups[i] = "error"}

\* C15: a failed lookup is never swallowed: it is logged and re-raised and
\* no mapping is returned; a mapping is returned only when the lookup of
\* every query succeeded
C15_LookupFailureRaised ==
  /\ FailedLookups # {} =>
       /\ kg_out.state = "raised"
       /\ kg_out.logged
       /\ kg_out.value = <<>>
  /\ kg_out.state = "returned" =>
       /\ Len(kg_lookups) = Len(kg_queries)
       /\ FailedLookups = {}
       /\ kg_out.value = kg_entities

\* the second lookup failed after the first had put an entity in the dict
C15_Witness ==
  /\ kg_out.state = "raised"
  /\ Len(kg_lookups) = 2
  /\ kg_lookups[1] = "ok"
  /\ DOMAIN kg_entities # {}

====
